---- MODULE Spec2Model ----
(***************************************************************************)
(* Diagram synchronisation and startup reconciliation of chartdb-frontend: *)
(*   - SyncService (src/lib/sync-service.ts): the remote sync client       *)
(*   - useSync (src/hooks/use-sync.ts): the sync coordinator               *)
(*   - useDiagramLoader (src/pages/editor-page/use-diagram-loader.tsx):    *)
(*     the startup reconciler                                              *)
(* Spec is the coordinator and the client; LoaderSpec is the reconciler.   *)
(***************************************************************************)
EXTENDS Integers, Sequences, FiniteSets, TLC

VARIABLES
    syncServiceInstance,   \* sync-service.ts:405  <<>> is null, <<cfg>> an instance
    enabled,               \* use-sync.ts:15       the hook's enabled option
    isSyncingRef,          \* use-sync.ts:22
    lastSyncedDiagramRef,  \* use-sync.ts:23       NullRef or a JSON text
    debounce,              \* use-sync.ts:62       the debounced function's timer and last argument
    network,               \* the calls suspended at a fetch that has not settled
    lastCall,              \* the call that completed in the last step, as its caller observed it
    acknowledged           \* <<d, op>>: the diagram the remote side last confirmed to the hook, and by which call

syncVars == <<syncServiceInstance, enabled, isSyncingRef, lastSyncedDiagramRef,
              debounce, network, lastCall, acknowledged>>

VARIABLES
    diagramId,                 \* use-diagram-loader.tsx:16  the route's id, Undefined when there is none
    config,                    \* use-diagram-loader.tsx:17  <<>> until loaded, then <<cfg>>
    currentDiagramId,          \* use-diagram-loader.tsx:18  currentDiagram?.id, "" when there is none
    currentDiagramLoadingRef,  \* use-diagram-loader.tsx:26
    initialDiagram,            \* use-diagram-loader.tsx:15  <<>> is undefined
    loaderShown,               \* the full-screen loader, as showLoader / hideLoader leave it
    catalog,                   \* the Local Catalog: id -> <<>> or <<diagram>>
    evaluations,               \* the calls of loadDefaultDiagram suspended at an await
    lastEvaluation             \* the call of loadDefaultDiagram that ended in the last step

loaderVars == <<diagramId, config, currentDiagramId, currentDiagramLoadingRef,
                initialDiagram, loaderShown, catalog, evaluations, lastEvaluation>>

VARIABLES
    remoteStore                \* the server's diagrams: id -> <<>> or <<wire form>>

storeVars == <<remoteStore>>

vars == <<syncVars, loaderVars, storeVars>>

----------------------------------------------------------------------------
(* Bounds of the model *)

MaxBurst == 3      \* calls of the debounced function within one quiet window
MaxReads == 1      \* pulls, lists and client calls suspended at the same time
MaxEvaluations == 2 \* calls of loadDefaultDiagram suspended at the same time
MaxReconciling == 1 \* of these, the calls made without an explicit identifier
MaxTypeLen == 3     \* characters of a wire field's bare type name

----------------------------------------------------------------------------
(* Values *)

Undefined == "undefined"
NullRef == <<>>

DiagramIds == {"A", "B"}
DiagramNames == {"v1", "v2"}

\* Diagram (lib/domain/diagram): the fields the coordinator's JSON text and
\* the catalog projection read; updatedAt is an instant in ms.
Diagram(i, n) == [id |-> i, name |-> n, databaseEdition |-> Undefined, updatedAt |-> 1000]

Diagrams == {Diagram("A", n) : n \in DiagramNames} \cup {Diagram("B", "v1")}

\* Date.prototype.toISOString on the instants of the model
toISOString(ms) ==
    CASE ms = 0 -> "1970-01-01T00:00:00.000Z"
      [] ms = 1000 -> "1970-01-01T00:00:01.000Z"
      [] OTHER -> "Invalid Date"

\* new Date(text) on the texts of the model
parseDate(text) ==
    CASE text = "1970-01-01T00:00:00.000Z" -> 0
      [] text = "1970-01-01T00:00:01.000Z" -> 1000
      [] OTHER -> -1

\* JSON.stringify(diagram): the members in order, a Date as its ISO text,
\* a member whose value is undefined left out.
JSONstringify(d) ==
    SelectSeq(<< <<"id", d.id>>,
                 <<"name", d.name>>,
                 <<"databaseEdition", d.databaseEdition>>,
                 <<"updatedAt", toISOString(d.updatedAt)>> >>,
              LAMBDA m : m[2] # Undefined)

----------------------------------------------------------------------------
(* SyncService: the remote sync client *)

SyncConfigs == [apiUrl : {"", "http://api"}, enabled : BOOLEAN]

\* get isEnabled, with the hooks' optional chaining on a null instance
isEnabled(svc) ==
    /\ svc # <<>>
    /\ svc[1].enabled
    /\ svc[1].apiUrl # ""

\* serializeDiagram: the wire form of a diagram
serializeDiagram(d) ==
    [id |-> d.id, name |-> d.name, databaseEdition |-> d.databaseEdition,
     updatedAt |-> toISOString(d.updatedAt)]

\* deserializeDiagram: the diagram of a wire form
deserializeDiagram(data) ==
    [id |-> data.id, name |-> data.name, databaseEdition |-> data.databaseEdition,
     updatedAt |-> parseDate(data.updatedAt)]

\* Response of fetch: kind "reject" is a network failure; otherwise an HTTP
\* response with its status, whether its body parses as JSON, the body's
\* error member ("" when it has none) and the body's data.
Response(kind, status, parses, error, data) ==
    [kind |-> kind, status |-> status, parses |-> parses, error |-> error, data |-> data]

\* response.ok
ok(resp) == resp.status >= 200 /\ resp.status <= 299

statusText(status) ==
    CASE status = 404 -> "HTTP 404: Not Found"
      [] status = 500 -> "HTTP 500: Internal Server Error"
      [] OTHER -> "HTTP"

Threw(msg) == [threw |-> TRUE, error |-> msg, value |-> <<>>]
Returned(v) == [threw |-> FALSE, error |-> "", value |-> v]

DisabledError == "Sync service is not enabled"
FetchError == "TypeError: Failed to fetch"
JSONError == "SyntaxError: Unexpected token"

\* response.json().catch(() => ({error: `HTTP ...`})), then error.error || fallback
failureMessage(resp, fallback) ==
    LET error == IF resp.parses THEN resp.error ELSE statusText(resp.status)
    IN  IF error # "" THEN error ELSE fallback

\* push, from the fetch's settlement on
pushSettled(resp) ==
    IF resp.kind = "reject" THEN Threw(FetchError)
    ELSE IF ~ok(resp) THEN Threw(failureMessage(resp, "Failed to push diagram"))
    ELSE IF ~resp.parses THEN Threw(JSONError)
    ELSE Returned(<<resp.data>>)

\* a pull that takes 404 for any other non-success status
pullSettled_no404(resp) ==
    IF resp.kind = "reject" THEN Threw(FetchError)
    ELSE IF ~ok(resp) THEN Threw(failureMessage(resp, "Failed to pull diagram"))
    ELSE IF ~resp.parses THEN Threw(JSONError)
    ELSE Returned(<<deserializeDiagram(resp.data)>>)

\* pull, from the fetch's settlement on: <<>> is null
pullSettled(resp) ==
    IF resp.kind = "reject" THEN Threw(FetchError)
    ELSE IF resp.status = 404 THEN Returned(<<>>)
    ELSE IF ~ok(resp) THEN Threw(failureMessage(resp, "Failed to pull diagram"))
    ELSE IF ~resp.parses THEN Threw(JSONError)
    ELSE Returned(<<deserializeDiagram(resp.data)>>)

\* the map of listDiagrams: the snake-case projection to DiagramListItem
listItem(d) ==
    [id |-> d.id, name |-> d.name, databaseType |-> d.database_type,
     databaseEdition |-> d.database_edition,
     createdAt |-> parseDate(d.created_at), updatedAt |-> parseDate(d.updated_at)]

\* listDiagrams, from the fetch's settlement on
listSettled(resp) ==
    IF resp.kind = "reject" THEN Threw(FetchError)
    ELSE IF ~ok(resp) THEN Threw(failureMessage(resp, "Failed to list diagrams"))
    ELSE IF ~resp.parses THEN Threw(JSONError)
    ELSE Returned([i \in 1..Len(resp.data) |-> listItem(resp.data[i])])

----------------------------------------------------------------------------
(* The remote server and the network, as far as the client can tell *)

NoData == <<>>

FailureResponses ==
    {Response("reject", 0, FALSE, "", NoData),
     Response("http", 500, TRUE, "boom", NoData),
     Response("http", 500, FALSE, "", NoData),
     Response("http", 200, FALSE, "", NoData)}

PushResponses(d) ==
    FailureResponses \cup
    {Response("http", 200, TRUE, "", [success |-> b, diagram_id |-> d.id]) : b \in BOOLEAN}

PullResponses(id) ==
    FailureResponses \cup
    {Response("http", 404, TRUE, "not found", NoData)} \cup
    {Response("http", 200, TRUE, "", serializeDiagram(d)) : d \in {x \in Diagrams : x.id = id}}

\* rows of GET /api/sync/diagrams
RemoteRow(i) ==
    [id |-> i, name |-> "remote", database_type |-> "postgresql",
     database_edition |-> Undefined,
     created_at |-> toISOString(0), updated_at |-> toISOString(1000)]

\* the remote catalogs of the model: empty, one diagram, two diagrams, and
\* lists that carry an id twice
RemoteLists ==
    {<<>>,
     <<RemoteRow("A")>>,
     <<RemoteRow("A"), RemoteRow("B")>>,
     <<RemoteRow("B"), RemoteRow("B")>>,
     <<RemoteRow("B"), RemoteRow("B"), RemoteRow("A")>>}

ListResponses ==
    FailureResponses \cup {Response("http", 200, TRUE, "", l) : l \in RemoteLists}

----------------------------------------------------------------------------
(* useSync: the sync coordinator *)

debounceMs == 2000

NoCall == [op |-> "none", owner |-> "none"]
TickMs == debounceMs \div 2

\* initSyncService(config), called once when App mounts
initSyncService(cfg) ==
    /\ syncServiceInstance = <<>>
    /\ syncServiceInstance' = <<cfg>>
    /\ lastCall' = NoCall
    /\ UNCHANGED <<enabled, isSyncingRef, lastSyncedDiagramRef, debounce, network,
                   acknowledged>>

\* a hook that checks the client alone, not its own enabled option
syncDisabled_optionIgnored == ~isEnabled(syncServiceInstance)

\* !syncService?.isEnabled || !enabled
syncDisabled == ~isEnabled(syncServiceInstance) \/ ~enabled

\* a pushDiagram without the in-flight check
alreadySyncing_unchecked == FALSE

\* if (isSyncingRef.current) return
alreadySyncing == isSyncingRef

\* a pushDiagram without change detection
unchangedSinceSync_unchecked(d) == FALSE

\* lastSyncedDiagramRef.current === diagramJSON
unchangedSinceSync(d) == lastSyncedDiagramRef = JSONstringify(d)

\* a pushDiagram without the finally block: the flag stays as line 36 set it
finallyFlag_absent == TRUE

\* finally { isSyncingRef.current = false }
finallyFlag == FALSE

\* the synchronous head of push, pull and listDiagrams of SyncService:
\* if (!this.isEnabled) throw new Error('Sync service is not enabled')
clientThrowsDisabled(svc) == ~isEnabled(svc)

\* the positions in network of the calls of owner suspended in op
inFlight(owner, op) ==
    {i \in DOMAIN network : network[i].owner = owner /\ network[i].op = op}

pushesInFlight == inFlight("hook", "push")

readsInFlight == {i \in DOMAIN network : network[i].op # "push" \/ network[i].owner # "hook"}

Remove(seq, i) == [j \in 1..(Len(seq) - 1) |-> IF j < i THEN seq[j] ELSE seq[j + 1]]

\* what an observer sees when a call arrives: the call, the state it finds,
\* and (filled in as the call proceeds) what it does
arrival(owner, op, src, arg) ==
    [owner |-> owner, op |-> op, src |-> src, arg |-> arg,
     serviceEnabled |-> IF owner = "hook" /\ op # "health"
                        THEN isEnabled(syncServiceInstance) /\ enabled
                        ELSE isEnabled(syncServiceInstance),
     during |-> op = "push" /\ owner = "hook" /\ pushesInFlight # {},
     changed |-> /\ op = "push" /\ owner = "hook"
                 /\ (acknowledged = <<>> \/ acknowledged[1] # arg),
     pulled |-> op = "push" /\ owner = "hook" /\ acknowledged = <<arg, "pull">>,
     confirmedBefore |-> acknowledged,
     retry |-> /\ op = "push" /\ owner = "hook"
               /\ lastCall.op = "push" /\ lastCall.owner = "hook"
               /\ lastCall.state = "settled" /\ lastCall.arg = arg
               /\ lastCall.onSyncSuccess = <<>>
               /\ lastCall.confirmedBefore = acknowledged,
     repeat |-> /\ op = "push" /\ owner = "hook"
                /\ lastCall.op = "push" /\ lastCall.owner = "hook"
                /\ lastCall.arg = arg /\ lastCall.onSyncSuccess # <<>>,
     n |-> 0, latest |-> <<>>, inWindow |-> TRUE, waited |-> 0,
     response |-> <<>>, requests |-> 0, state |-> "returned", status |-> 0,
     client |-> Returned(<<>>), returned |-> <<>>,
     onSyncSuccess |-> <<>>, onSyncError |-> <<>>, raised |-> FALSE,
     flagAfter |-> isSyncingRef, flagChanged |-> FALSE, baselineChanged |-> FALSE]

suspended(call) ==
    [call EXCEPT !.requests = 1, !.state = "awaiting", !.flagAfter = FALSE]

\* the call, completed, with what it did to the flag and the baseline
completed(call, flag, baseline) ==
    [call EXCEPT !.flagAfter = flag,
                 !.flagChanged = (flag # isSyncingRef),
                 !.baselineChanged = (baseline # lastSyncedDiagramRef)]

\* a catch block that logs and does not call onSyncError
errorCallback_silent(result) == <<>>

\* the messages passed to onSyncError by a catch block
errorCallback(result) == IF result.threw THEN <<result.error>> ELSE <<>>

\* whether the hook's function raises to its caller: its catch block takes
\* whatever the client throws
hookRaises(result) == FALSE

\* pushDiagram(diagram), up to its await or its return; burst is what the
\* debounced function saw since it last fired
pushDiagram(d, src, burst) ==
    LET call == [arrival("hook", "push", src, d) EXCEPT
                    !.n = burst.n, !.latest = burst.latest,
                    !.inWindow = burst.inWindow, !.waited = burst.since]
    IN  IF syncDisabled \/ alreadySyncing
        THEN /\ lastCall' = call
             /\ UNCHANGED <<isSyncingRef, lastSyncedDiagramRef, network>>
        ELSE IF unchangedSinceSync(d)
        THEN \* the flag is set, the skip returns, finally clears the flag
             /\ isSyncingRef' = finallyFlag
             /\ lastCall' = completed(call, finallyFlag, lastSyncedDiagramRef)
             /\ UNCHANGED <<lastSyncedDiagramRef, network>>
        ELSE IF clientThrowsDisabled(syncServiceInstance)
        THEN \* syncService.push throws before fetch; catch, finally
             /\ isSyncingRef' = finallyFlag
             /\ lastCall' = completed([call EXCEPT !.client = Threw(DisabledError),
                                                   !.onSyncError = <<DisabledError>>],
                                       finallyFlag, lastSyncedDiagramRef)
             /\ UNCHANGED <<lastSyncedDiagramRef, network>>
        ELSE /\ isSyncingRef' = TRUE
             /\ network' = Append(network, suspended(call))
             /\ lastCall' = NoCall
             /\ UNCHANGED lastSyncedDiagramRef

NoBurst == [n |-> 0, latest |-> <<>>, inWindow |-> TRUE, since |-> 0]

\* pushDiagramImmediate(diagram)
pushDiagramImmediate(d) ==
    /\ pushDiagram(d, "direct", NoBurst)
    /\ UNCHANGED <<syncServiceInstance, enabled, debounce, acknowledged>>

\* response.success
pushSucceeded(result) == ~result.threw /\ result.value[1].success

\* a pushDiagram that takes every settled push for synced
baselineAfterPush_always(result, d) == JSONstringify(d)

\* the baseline after the awaited push of d settled with result
baselineAfterPush(result, d) ==
    IF pushSucceeded(result) THEN JSONstringify(d) ELSE lastSyncedDiagramRef

\* pushDiagram, from the settlement of syncService.push on
pushDiagramSettled(i, resp) ==
    LET call == network[i]
        result == pushSettled(resp)
    IN  /\ network' = Remove(network, i)
        /\ lastSyncedDiagramRef' = baselineAfterPush(result, call.arg)
        /\ isSyncingRef' = finallyFlag
        /\ lastCall' = completed(
              [call EXCEPT
                 !.state = "settled",
                 !.status = resp.status,
                 !.client = result,
                 !.onSyncSuccess = IF pushSucceeded(result) THEN <<call.arg.id>> ELSE <<>>,
                 !.onSyncError = errorCallback(result),
                 !.raised = hookRaises(result)],
              finallyFlag, baselineAfterPush(result, call.arg))
        /\ acknowledged' = IF resp.kind = "http" /\ ok(resp) /\ resp.parses /\ resp.data.success
                           THEN <<call.arg, "push">> ELSE acknowledged
        /\ UNCHANGED <<syncServiceInstance, enabled, debounce>>

PushResolve ==
    \E i \in pushesInFlight :
        \E resp \in PushResponses(network[i].arg) :
            pushDiagramSettled(i, resp)

\* the debounced function at rest; n, latest and inWindow observe the calls
\* since it last fired: how many, the value of the last, and whether each came
\* within the quiet window of the one before
debounceIdle ==
    [timer |-> FALSE, lastArgs |-> <<>>, since |-> 0,
     n |-> 0, latest |-> <<>>, inWindow |-> TRUE]

\* a debounced function that keeps the first argument of a burst
keptArgs_first(d) == IF debounce.timer THEN debounce.lastArgs ELSE <<d>>

\* the argument the debounced function keeps on a call with d
keptArgs(d) == <<d>>

\* the time since the last call after a call: the quiet window restarts
restartedWindow == 0

\* debouncedPush(diagram): keep the argument, restart the quiet window
debouncedPush(d) ==
    /\ debounce.n < MaxBurst
    /\ debounce' = [timer |-> TRUE, lastArgs |-> keptArgs(d), since |-> restartedWindow,
                    n |-> debounce.n + 1, latest |-> <<d>>,
                    inWindow |-> /\ debounce.inWindow
                                 /\ (debounce.timer => debounce.since < debounceMs)]
    /\ lastCall' = NoCall
    /\ UNCHANGED <<syncServiceInstance, enabled, isSyncingRef, lastSyncedDiagramRef,
                   network, acknowledged>>

\* time passes while the timer is pending
DebounceTick ==
    /\ debounce.timer
    /\ debounce.since < debounceMs
    /\ debounce' = [debounce EXCEPT !.since = debounce.since + TickMs]
    /\ lastCall' = NoCall
    /\ UNCHANGED <<syncServiceInstance, enabled, isSyncingRef, lastSyncedDiagramRef,
                   network, acknowledged>>

\* the timer may invoke the function: wait ms have passed since the last call
debounceExpired == debounce.since >= debounceMs

\* the trailing edge: the timer invokes pushDiagram with the last argument
DebounceFire ==
    /\ debounce.timer
    /\ debounceExpired
    /\ pushDiagram(debounce.lastArgs[1], "debounce",
                   [n |-> debounce.n, latest |-> debounce.latest,
                    inWindow |-> debounce.inWindow, since |-> debounce.since])
    /\ debounce' = debounceIdle
    /\ UNCHANGED <<syncServiceInstance, enabled, acknowledged>>

\* pullDiagram(diagramId), up to its await or its return
pullDiagram(id) ==
    /\ Cardinality(readsInFlight) < MaxReads
    /\ LET call == arrival("hook", "pull", "direct", id)
       IN  IF syncDisabled
           THEN /\ lastCall' = call
                /\ UNCHANGED network
           ELSE IF clientThrowsDisabled(syncServiceInstance)
           THEN /\ lastCall' = [call EXCEPT !.client = Threw(DisabledError),
                                            !.onSyncError = <<DisabledError>>]
                /\ UNCHANGED network
           ELSE /\ network' = Append(network, suspended(call))
                /\ lastCall' = NoCall
    /\ UNCHANGED <<syncServiceInstance, enabled, isSyncingRef, lastSyncedDiagramRef, debounce,
                   acknowledged>>

\* a pullDiagram that leaves the baseline alone
baselineAfterPull_unset(result) == lastSyncedDiagramRef

\* the baseline after the awaited pull settled with result
baselineAfterPull(result) ==
    IF ~result.threw /\ result.value # <<>>
    THEN JSONstringify(result.value[1])
    ELSE lastSyncedDiagramRef

\* what the hook's pullDiagram and listDiagrams return: the client's value, or
\* the catch block's null / []
returnedByHook(result) == IF result.threw THEN <<>> ELSE result.value

\* pullDiagram, from the settlement of syncService.pull on
pullDiagramSettled(i, resp) ==
    LET call == network[i]
        result == pullSettled(resp)
    IN  /\ network' = Remove(network, i)
        /\ lastSyncedDiagramRef' = baselineAfterPull(result)
        /\ lastCall' = completed(
              [call EXCEPT
                 !.state = "settled",
                 !.status = resp.status,
                 !.client = result,
                 !.returned = returnedByHook(result),
                 !.onSyncError = errorCallback(result),
                 !.raised = hookRaises(result)],
              isSyncingRef, baselineAfterPull(result))
        /\ acknowledged' = IF resp.kind = "http" /\ ok(resp) /\ resp.parses
                           THEN <<deserializeDiagram(resp.data), "pull">> ELSE acknowledged
        /\ UNCHANGED <<syncServiceInstance, enabled, isSyncingRef, debounce>>

PullResolve ==
    \E i \in inFlight("hook", "pull") :
        \E resp \in PullResponses(network[i].arg) :
            pullDiagramSettled(i, resp)

\* listDiagrams() of the hook, up to its await or its return
listDiagrams ==
    /\ Cardinality(readsInFlight) < MaxReads
    /\ LET call == arrival("hook", "list", "direct", "")
       IN  IF syncDisabled
           THEN /\ lastCall' = call
                /\ UNCHANGED network
           ELSE IF clientThrowsDisabled(syncServiceInstance)
           THEN /\ lastCall' = [call EXCEPT !.client = Threw(DisabledError),
                                            !.onSyncError = <<DisabledError>>]
                /\ UNCHANGED network
           ELSE /\ network' = Append(network, suspended(call))
                /\ lastCall' = NoCall
    /\ UNCHANGED <<syncServiceInstance, enabled, isSyncingRef, lastSyncedDiagramRef, debounce,
                   acknowledged>>

\* listDiagrams of the hook, from the settlement of syncService.listDiagrams on
listDiagramsSettled(i, resp) ==
    LET call == network[i]
        result == listSettled(resp)
    IN  /\ network' = Remove(network, i)
        /\ lastCall' = completed(
              [call EXCEPT
                 !.state = "settled",
                 !.status = resp.status,
                 !.client = result,
                 !.returned = returnedByHook(result),
                 !.onSyncError = errorCallback(result),
                 !.raised = hookRaises(result)],
              isSyncingRef, lastSyncedDiagramRef)
        /\ UNCHANGED <<syncServiceInstance, enabled, isSyncingRef, lastSyncedDiagramRef,
                       debounce, acknowledged>>

ListResolve ==
    \E i \in inFlight("hook", "list") :
        \E resp \in ListResponses :
            listDiagramsSettled(i, resp)

\* a caller other than the hook invokes push, pull or listDiagrams of the
\* SyncService instance
ClientCall(op, arg) ==
    /\ syncServiceInstance # <<>>
    /\ Cardinality(readsInFlight) < MaxReads
    /\ LET call == arrival("client", op, "direct", arg)
       IN  IF clientThrowsDisabled(syncServiceInstance)
           THEN /\ lastCall' = [call EXCEPT !.client = Threw(DisabledError)]
                /\ UNCHANGED network
           ELSE /\ network' = Append(network, suspended(call))
                /\ lastCall' = NoCall
    /\ UNCHANGED <<syncServiceInstance, enabled, isSyncingRef, lastSyncedDiagramRef, debounce,
                   acknowledged>>

ClientPush == \E d \in Diagrams : ClientCall("push", d)
ClientPull == \E id \in DiagramIds : ClientCall("pull", id)
ClientList == ClientCall("list", "")

\* the method's promise settles
clientSettled(i, resp) ==
    LET call == network[i]
        result == CASE call.op = "push" -> pushSettled(resp)
                    [] call.op = "pull" -> pullSettled(resp)
                    [] OTHER -> listSettled(resp)
    IN  /\ network' = Remove(network, i)
        /\ lastCall' = completed(
              [call EXCEPT !.state = "settled", !.status = resp.status, !.client = result],
              isSyncingRef, lastSyncedDiagramRef)
        /\ UNCHANGED <<syncServiceInstance, enabled, isSyncingRef, lastSyncedDiagramRef,
                       debounce, acknowledged>>

ClientResolve ==
    \E i \in {j \in DOMAIN network : network[j].owner = "client" /\ network[j].op # "health"} :
        \E resp \in (CASE network[i].op = "push" -> PushResponses(network[i].arg)
                       [] network[i].op = "pull" -> PullResponses(network[i].arg)
                       [] OTHER -> ListResponses) :
            clientSettled(i, resp)

\* responses of GET /health
HealthResponses ==
    FailureResponses \cup
    {Response("http", 200, TRUE, "", NoData), Response("http", 404, TRUE, "not found", NoData)}

\* a healthCheck whose try has no catch: a rejected fetch is thrown on
healthSettled_uncaught(resp) ==
    IF resp.kind = "reject" THEN Threw(FetchError) ELSE Returned(<<ok(resp)>>)

\* healthCheck, from the fetch's settlement on: response.ok, or the catch's false
healthSettled(resp) ==
    IF resp.kind = "reject" THEN Returned(<<FALSE>>) ELSE Returned(<<ok(resp)>>)

\* healthCheck() of the SyncService instance, up to its fetch or its return
healthCheck ==
    /\ syncServiceInstance # <<>>
    /\ Cardinality(readsInFlight) < MaxReads
    /\ LET call == arrival("client", "health", "direct", "")
       IN  IF ~isEnabled(syncServiceInstance)
           THEN /\ lastCall' = [call EXCEPT !.client = Returned(<<FALSE>>)]
                /\ UNCHANGED network
           ELSE /\ network' = Append(network, suspended(call))
                /\ lastCall' = NoCall
    /\ UNCHANGED <<syncServiceInstance, enabled, isSyncingRef, lastSyncedDiagramRef, debounce,
                   acknowledged>>

\* checkHealth() of the hook, up to its await or its return; its guard reads
\* the client alone, not the hook's enabled option
checkHealth ==
    /\ Cardinality(readsInFlight) < MaxReads
    /\ LET call == arrival("hook", "health", "direct", "")
       IN  IF ~isEnabled(syncServiceInstance)
           THEN /\ lastCall' = [call EXCEPT !.returned = <<FALSE>>]
                /\ UNCHANGED network
           ELSE /\ network' = Append(network, suspended(call))
                /\ lastCall' = NoCall
    /\ UNCHANGED <<syncServiceInstance, enabled, isSyncingRef, lastSyncedDiagramRef, debounce,
                   acknowledged>>

\* healthCheck settles; the hook's checkHealth returns what it brought, or
\* false from its own catch block
healthCheckSettled(i, resp) ==
    LET call == network[i]
        result == healthSettled(resp)
    IN  /\ network' = Remove(network, i)
        /\ lastCall' = completed(
              [call EXCEPT
                 !.state = "settled",
                 !.status = resp.status,
                 !.client = result,
                 !.returned = IF call.owner # "hook" THEN <<>>
                              ELSE IF result.threw THEN <<FALSE>> ELSE result.value,
                 !.raised = call.owner = "client" /\ result.threw],
              isSyncingRef, lastSyncedDiagramRef)
        /\ UNCHANGED <<syncServiceInstance, enabled, isSyncingRef, lastSyncedDiagramRef,
                       debounce, acknowledged>>

HealthResolve ==
    \E i \in {j \in DOMAIN network : network[j].op = "health"} :
        \E resp \in HealthResponses :
            healthCheckSettled(i, resp)

----------------------------------------------------------------------------
(* useDiagramLoader: the startup reconciler *)

\* a diagram of the Local Catalog that was made locally, with its body
LocalEntry(id) ==
    [id |-> id, name |-> "local", databaseType |-> "postgresql",
     databaseEdition |-> Undefined, createdAt |-> 0, updatedAt |-> 0,
     tables |-> "tables"]

\* the diagram handed to addDiagram: the remote row's projection, no body
remoteProjection(remote) ==
    [id |-> remote.id, name |-> remote.name, databaseType |-> remote.databaseType,
     databaseEdition |-> remote.databaseEdition,
     createdAt |-> remote.createdAt, updatedAt |-> remote.updatedAt,
     tables |-> Undefined]

\* the ids of the diagrams in a catalog
idsOf(cat) == {id \in DOMAIN cat : cat[id] # <<>>}

\* the ids of the rows of a remote list
rowIds(remote) == {remote[j].id : j \in DOMAIN remote}

EmptyCatalog == [id \in DiagramIds |-> <<>>]

\* config.defaultDiagramId, "" when none is configured
LoaderConfigs == [defaultDiagramId : {"", "A"}]

NoEvaluation ==
    [key |-> Undefined, defaultId |-> "", pc |-> "none", trace |-> <<>>,
     loaded |-> <<>>, remote |-> <<>>, localIds |-> {}, i |-> 0,
     localBefore |-> EmptyCatalog, catalogAfter |-> EmptyCatalog,
     reconciled |-> FALSE, aborted |-> FALSE, interfered |-> FALSE]

Event(name, arg) == <<name, arg>>

\* an explicit-identifier path that keeps the undo/redo history
explicitPrefix_historyKept(id) ==
    << Event("setInitialDiagram", Undefined), Event("showLoader", ""),
       Event("loadDiagram", id) >>

\* the statements of loadDefaultDiagram before loadDiagram(diagramId)
explicitPrefix(id) ==
    << Event("setInitialDiagram", Undefined), Event("showLoader", ""),
       Event("resetRedoStack", ""), Event("resetUndoStack", ""),
       Event("loadDiagram", id) >>

\* the guard of the effect on currentDiagramLoadingRef
alreadyLoading ==
    /\ currentDiagramLoadingRef = (IF diagramId = Undefined THEN "" ELSE diagramId)
    /\ currentDiagramLoadingRef # Undefined

\* the effect: the guards, then loadDefaultDiagram() up to its first await
loadDefaultDiagram ==
    /\ config # <<>>
    /\ currentDiagramId # diagramId
    /\ ~alreadyLoading
    /\ Len(evaluations) < MaxEvaluations
    /\ diagramId = Undefined =>
          Cardinality({k \in DOMAIN evaluations : evaluations[k].key = Undefined})
              < MaxReconciling
    /\ currentDiagramLoadingRef' = (IF diagramId = Undefined THEN "" ELSE diagramId)
    /\ LET e == [NoEvaluation EXCEPT !.key = diagramId,
                                     !.defaultId = config[1].defaultDiagramId]
       IN  IF diagramId # Undefined
           THEN /\ initialDiagram' = <<>>
                /\ loaderShown' = TRUE
                /\ evaluations' = Append(evaluations,
                       [e EXCEPT !.pc = "loadExplicit", !.trace = explicitPrefix(diagramId)])
           ELSE /\ evaluations' = Append(evaluations,
                       IF e.defaultId # ""
                       THEN [e EXCEPT !.pc = "loadDefault",
                                      !.trace = <<Event("loadDiagram", e.defaultId)>>]
                       ELSE [e EXCEPT !.pc = "listRemote",
                                      !.trace = <<Event("listRemoteDiagrams", "")>>])
                /\ UNCHANGED <<initialDiagram, loaderShown>>
    /\ lastEvaluation' = NoEvaluation
    /\ UNCHANGED <<diagramId, config, currentDiagramId, catalog>>

\* the evaluation at position k ends as e
ended(k, e) ==
    /\ evaluations' = Remove(evaluations, k)
    /\ lastEvaluation' = e

\* the evaluation at position k goes on as e
goesOn(k, e) ==
    /\ evaluations' = [evaluations EXCEPT ![k] = e]
    /\ lastEvaluation' = NoEvaluation

\* what an await of a Local Catalog operation can bring
StorageOutcomes == {"ok", "throws"}

\* await loadDiagram(diagramId), and the rest of the explicit-identifier path
loadExplicitReturns(k, outcome) ==
    LET e == evaluations[k] IN
    /\ e.pc = "loadExplicit"
    /\ IF outcome = "throws"
       THEN /\ ended(k, [e EXCEPT !.pc = "rejected"])
            /\ UNCHANGED <<initialDiagram, loaderShown, currentDiagramId>>
       ELSE IF catalog[e.key] = <<>>
       THEN /\ loaderShown' = FALSE
            /\ ended(k, [e EXCEPT !.pc = "done",
                   !.trace = e.trace \o << Event("openOpenDiagramDialog", "canClose: false"),
                                           Event("hideLoader", "") >>])
            /\ UNCHANGED <<initialDiagram, currentDiagramId>>
       ELSE /\ currentDiagramId' = e.key
            /\ initialDiagram' = catalog[e.key]
            /\ loaderShown' = FALSE
            /\ ended(k, [e EXCEPT !.pc = "done",
                   !.trace = e.trace \o << Event("setInitialDiagram", e.key),
                                           Event("hideLoader", "") >>])
    /\ UNCHANGED <<diagramId, config, currentDiagramLoadingRef, catalog>>

\* a default path that never redirects
defaultFound_ignored(loaded) == FALSE

\* if (diagram), of the diagram that loadDiagram(config.defaultDiagramId) returned
defaultFound(loaded) == loaded # <<>>

\* await loadDiagram(config.defaultDiagramId), and the navigate or the fall through
loadDefaultReturns(k, outcome) ==
    LET e == evaluations[k]
        f == [e EXCEPT !.loaded = catalog[e.defaultId]]
    IN
    /\ e.pc = "loadDefault"
    /\ IF outcome = "throws"
       THEN /\ ended(k, [e EXCEPT !.pc = "rejected"])
            /\ UNCHANGED <<diagramId, currentDiagramId>>
       ELSE IF defaultFound(f.loaded)
       THEN /\ currentDiagramId' = e.defaultId
            /\ diagramId' = e.defaultId
            /\ ended(k, [f EXCEPT !.pc = "done",
                   !.trace = Append(e.trace, Event("navigate", e.defaultId))])
       ELSE /\ goesOn(k, [f EXCEPT !.pc = "listRemote",
                   !.trace = Append(e.trace, Event("listRemoteDiagrams", ""))])
            /\ UNCHANGED <<diagramId, currentDiagramId>>
    /\ UNCHANGED <<config, currentDiagramLoadingRef, initialDiagram, loaderShown, catalog>>

\* what await listRemoteDiagrams() can bring: the hook's listDiagrams
remoteLists ==
    IF syncDisabled
    THEN {<<>>}
    ELSE {returnedByHook(listSettled(resp)) : resp \in ListResponses}

\* the reconciliation of e is over: the final listDiagrams() is awaited
reconciliationOver(e, cat) ==
    [e EXCEPT !.pc = "listFinal", !.reconciled = TRUE, !.catalogAfter = cat,
              !.trace = Append(e.trace, Event("listDiagrams", ""))]

\* await listRemoteDiagrams(), and the test of its length
listRemoteReturns(k, remote) ==
    LET e == [evaluations[k] EXCEPT !.remote = remote, !.localBefore = catalog] IN
    /\ evaluations[k].pc = "listRemote"
    /\ IF Len(remote) > 0
       THEN goesOn(k, [e EXCEPT !.pc = "listLocal",
                              !.trace = Append(e.trace, Event("listDiagrams", ""))])
       ELSE goesOn(k, reconciliationOver(e, catalog))
    /\ UNCHANGED <<diagramId, config, currentDiagramId, currentDiagramLoadingRef,
                   initialDiagram, loaderShown, catalog>>

\* a loop that adds every remote row
missingLocally_unchecked(localIds, remote) == TRUE

\* !localIds.has(remote.id)
missingLocally(localIds, remote) == remote.id \notin localIds

\* the for loop from row j on: up to the next await addDiagram, or to its end
nextAdd(e, j, cat) ==
    LET todo == {m \in j..Len(e.remote) : missingLocally(e.localIds, e.remote[m])} IN
    IF todo = {}
    THEN reconciliationOver(e, cat)
    ELSE LET m == CHOOSE x \in todo : \A y \in todo : x <= y
         IN  [e EXCEPT !.pc = "add", !.i = m,
                       !.trace = Append(e.trace, Event("addDiagram", e.remote[m].id))]

\* a reconciliation without the catch block: the failure ends the evaluation
reconciliationFailed_uncaught(e, cat) ==
    [e EXCEPT !.pc = "rejected", !.aborted = TRUE, !.catalogAfter = cat]

\* the catch block of the reconciliation
reconciliationFailed(e, cat) == reconciliationOver([e EXCEPT !.aborted = TRUE], cat)

\* await listDiagrams() of the reconciliation, the id set, and the loop's start
listLocalReturns(k, outcome) ==
    LET e == evaluations[k] IN
    /\ e.pc = "listLocal"
    /\ IF outcome = "throws"
       THEN goesOn(k, reconciliationFailed(e, catalog))
       ELSE goesOn(k, nextAdd([e EXCEPT !.localIds = idsOf(catalog)], 1, catalog))
    /\ UNCHANGED <<diagramId, config, currentDiagramId, currentDiagramLoadingRef,
                   initialDiagram, loaderShown, catalog>>

\* the other evaluations that are reconciling see the catalog change under them
interfering(k, evs) ==
    [j \in DOMAIN evs |->
        IF j # k /\ evs[j].pc \in {"listLocal", "add"}
        THEN [evs[j] EXCEPT !.interfered = TRUE]
        ELSE evs[j]]

\* await addDiagram({diagram}), and the loop's next round
addReturns(k, outcome) ==
    LET e == evaluations[k]
        cat == [catalog EXCEPT ![e.remote[e.i].id] = <<remoteProjection(e.remote[e.i])>>]
    IN
    /\ e.pc = "add"
    /\ IF outcome = "throws"
       THEN /\ goesOn(k, reconciliationFailed(e, catalog))
            /\ UNCHANGED catalog
       ELSE /\ catalog' = cat
            /\ evaluations' = [interfering(k, evaluations) EXCEPT
                                  ![k] = nextAdd(e, e.i + 1, cat)]
            /\ lastEvaluation' = NoEvaluation
    /\ UNCHANGED <<diagramId, config, currentDiagramId, currentDiagramLoadingRef,
                   initialDiagram, loaderShown>>

\* a reconciler that always offers the existing diagrams
promptFor_alwaysOpen(diagrams) == Event("openOpenDiagramDialog", "canClose: false")

\* the prompt for a local list: diagrams.length > 0
promptFor(diagrams) ==
    IF diagrams # {}
    THEN Event("openOpenDiagramDialog", "canClose: false")
    ELSE Event("openCreateDiagramDialog", "")

\* await listDiagrams() after the reconciliation, and the prompt
listFinalReturns(k, outcome) ==
    LET e == evaluations[k] IN
    /\ e.pc = "listFinal"
    /\ IF outcome = "throws"
       THEN ended(k, [e EXCEPT !.pc = "rejected"])
       ELSE ended(k, [e EXCEPT !.pc = "done",
                               !.trace = Append(e.trace, promptFor(idsOf(catalog)))])
    /\ UNCHANGED <<diagramId, config, currentDiagramId, currentDiagramLoadingRef,
                   initialDiagram, loaderShown, catalog>>

\* the route changes
navigated(id) ==
    /\ id # diagramId
    /\ diagramId' = id
    /\ lastEvaluation' = NoEvaluation
    /\ UNCHANGED <<config, currentDiagramId, currentDiagramLoadingRef, initialDiagram,
                   loaderShown, catalog, evaluations>>

\* useConfig delivers the configuration
configLoaded(c) ==
    /\ config = <<>>
    /\ config' = <<c>>
    /\ lastEvaluation' = NoEvaluation
    /\ UNCHANGED <<diagramId, currentDiagramId, currentDiagramLoadingRef, initialDiagram,
                   loaderShown, catalog, evaluations>>

----------------------------------------------------------------------------
(* The wire codec: serializeDiagram and deserializeDiagram on the          *)
(* collections of a diagram.  An optional member is Absent or Some(v); a   *)
(* text that the codec computes on is a sequence of characters.            *)

Absent == <<>>
Some(v) == <<v>>

\* collection?.map(f): undefined stays undefined
mapOptional(collection, f(_)) ==
    IF collection = Absent
    THEN Absent
    ELSE Some([k \in DOMAIN collection[1] |-> f(collection[1][k])])

\* createdAt || Date.now(): an absent or zero createdAt is falsy
orDateNow(createdAt, now) ==
    IF createdAt = Absent \/ createdAt = Some(0) THEN Some(now) ELSE createdAt

\* typeof f.type === 'string': a bare type name is [str |-> text], a
\* structured type is [id |-> text, name |-> text]
isString(type) == "str" \in DOMAIN type

WhiteSpace == {" ", "\t"}

\* String.prototype.toLowerCase on the characters of the model
toLowerCase(text) ==
    [k \in DOMAIN text |->
        CASE text[k] = "A" -> "a"
          [] text[k] = "B" -> "b"
          [] OTHER -> text[k]]

\* a replace without the +: every whitespace character becomes an underscore
replaceWhiteSpace_each(text) ==
    [k \in DOMAIN text |-> IF text[k] \in WhiteSpace THEN "_" ELSE text[k]]

\* text.replace(/\s+/g, '_'): every maximal run of whitespace becomes one underscore
RECURSIVE replaceWhiteSpace(_)
replaceWhiteSpace(text) ==
    IF text = <<>> THEN <<>>
    ELSE IF Head(text) \in WhiteSpace
    THEN IF Len(text) > 1 /\ text[2] \in WhiteSpace
         THEN replaceWhiteSpace(Tail(text))
         ELSE <<"_">> \o replaceWhiteSpace(Tail(text))
    ELSE <<Head(text)>> \o replaceWhiteSpace(Tail(text))

\* the fieldType of deserializeDiagram
fieldType(type) ==
    IF isString(type)
    THEN [id |-> replaceWhiteSpace(toLowerCase(type.str)), name |-> type.str]
    ELSE type

\* the members of a table written by serializeDiagram; createdAt is not
\* among them, fields and indexes go as they are
serializeTable(t, ofDiagram) ==
    [id |-> t.id, diagramId |-> ofDiagram, name |-> t.name, schema |-> t.schema,
     x |-> t.x, y |-> t.y, color |-> t.color, isView |-> t.isView,
     createdAt |-> Absent,
     fields |-> t.fields, indexes |-> t.indexes, comments |-> t.comments]

serializeRelationship(r, ofDiagram) ==
    [id |-> r.id, diagramId |-> ofDiagram, name |-> r.name,
     sourceTableId |-> r.sourceTableId, targetTableId |-> r.targetTableId,
     sourceFieldId |-> r.sourceFieldId, targetFieldId |-> r.targetFieldId,
     sourceCardinality |-> r.sourceCardinality,
     targetCardinality |-> r.targetCardinality,
     createdAt |-> Absent]

serializeDependency(d, ofDiagram) ==
    [id |-> d.id, diagramId |-> ofDiagram, tableId |-> d.tableId,
     dependentTableId |-> d.dependentTableId, createdAt |-> Absent]

serializeArea(a, ofDiagram) ==
    [id |-> a.id, diagramId |-> ofDiagram, name |-> a.name, x |-> a.x, y |-> a.y,
     width |-> a.width, height |-> a.height, color |-> a.color]

serializeNote(n, ofDiagram) ==
    [id |-> n.id, diagramId |-> ofDiagram, content |-> n.content, x |-> n.x, y |-> n.y,
     width |-> n.width, height |-> n.height, color |-> n.color]

serializeCustomType(ct, ofDiagram) ==
    [id |-> ct.id, diagramId |-> ofDiagram, name |-> ct.name, schema |-> ct.schema,
     kind |-> ct.kind, fields |-> ct.fields]

\* the collections of the object serializeDiagram returns
serializeCollections(d) ==
    LET table(t) == serializeTable(t, d.id)
        relationship(r) == serializeRelationship(r, d.id)
        dependency(x) == serializeDependency(x, d.id)
        area(a) == serializeArea(a, d.id)
        customType(ct) == serializeCustomType(ct, d.id)
        note(n) == serializeNote(n, d.id)
    IN  [tables |-> mapOptional(d.tables, table),
         relationships |-> mapOptional(d.relationships, relationship),
         dependencies |-> mapOptional(d.dependencies, dependency),
         areas |-> mapOptional(d.areas, area),
         customTypes |-> mapOptional(d.customTypes, customType),
         notes |-> mapOptional(d.notes, note)]

deserializeField(f, now) ==
    [id |-> f.id, name |-> f.name, type |-> fieldType(f.type),
     primaryKey |-> f.primaryKey, unique |-> f.unique, nullable |-> f.nullable,
     createdAt |-> orDateNow(f.createdAt, now),
     check |-> f.check, default |-> f.default, collation |-> f.collation,
     comments |-> f.comments]

\* an index of a decoded table: createdAt is Date.now(), whatever the wire says
deserializeIndex(i, now) ==
    [id |-> i.id, name |-> i.name, unique |-> i.unique, fieldIds |-> i.fieldIds,
     createdAt |-> Some(now)]

deserializeTable(t, now) ==
    LET index(i) == deserializeIndex(i, now) IN
    [id |-> t.id, name |-> t.name, schema |-> t.schema,
     x |-> t.x, y |-> t.y, color |-> t.color, isView |-> t.isView,
     createdAt |-> orDateNow(t.createdAt, now),
     fields |-> [k \in DOMAIN t.fields |-> deserializeField(t.fields[k], now)],
     indexes |-> IF t.indexes = Absent THEN Some(<<>>) ELSE mapOptional(t.indexes, index),
     comments |-> t.comments]

deserializeRelationship(r, now) ==
    [id |-> r.id, name |-> r.name,
     sourceTableId |-> r.sourceTableId, targetTableId |-> r.targetTableId,
     sourceFieldId |-> r.sourceFieldId, targetFieldId |-> r.targetFieldId,
     sourceCardinality |-> r.sourceCardinality,
     targetCardinality |-> r.targetCardinality,
     createdAt |-> orDateNow(r.createdAt, now)]

deserializeDependency(d, now) ==
    [id |-> d.id, tableId |-> d.tableId, dependentTableId |-> d.dependentTableId,
     createdAt |-> orDateNow(d.createdAt, now)]

deserializeArea(a) ==
    [id |-> a.id, name |-> a.name, x |-> a.x, y |-> a.y,
     width |-> a.width, height |-> a.height, color |-> a.color]

deserializeNote(n) ==
    [id |-> n.id, content |-> n.content, x |-> n.x, y |-> n.y,
     width |-> n.width, height |-> n.height, color |-> n.color]

deserializeCustomType(ct) ==
    [id |-> ct.id, name |-> ct.name, schema |-> ct.schema, kind |-> ct.kind,
     fields |-> ct.fields]

\* the collections of the diagram deserializeDiagram returns, decoded at now
deserializeCollections(data, now) ==
    LET table(t) == deserializeTable(t, now)
        relationship(r) == deserializeRelationship(r, now)
        dependency(x) == deserializeDependency(x, now)
    IN  [tables |-> mapOptional(data.tables, table),
         relationships |-> mapOptional(data.relationships, relationship),
         dependencies |-> mapOptional(data.dependencies, dependency),
         areas |-> mapOptional(data.areas, deserializeArea),
         customTypes |-> mapOptional(data.customTypes, deserializeCustomType),
         notes |-> mapOptional(data.notes, deserializeNote)]

\* serializeDiagram and deserializeDiagram on a diagram with its collections
encode(d) == serializeDiagram(d) @@ serializeCollections(d)
decode(data, now) == deserializeDiagram(data) @@ deserializeCollections(data, now)

\* the instants of the model: createdAt values, and Date.now() at decode time
CreatedAts == {Absent, Some(0), Some(5)}
DateNows == {7, 9}

\* texts of type names: up to MaxTypeLen characters
TypeChars == {"A", "b", " ", "\t"}
TypeTexts == UNION {[1..n -> TypeChars] : n \in 0..MaxTypeLen}

StructuredType == [id |-> <<"u", "u", "i", "d">>, name |-> <<"U", "U", "I", "D">>]

\* DBField, DBIndex, DBTable, DBRelationship, DBDependency, Area, DBCustomType
\* and Note values of the model
DBField(type, createdAt) ==
    [id |-> "f1", name |-> "id", type |-> type,
     primaryKey |-> TRUE, unique |-> TRUE, nullable |-> FALSE,
     createdAt |-> createdAt,
     check |-> Absent, default |-> Absent, collation |-> Absent, comments |-> Absent]

DBIndex(createdAt) ==
    [id |-> "i1", name |-> "pk", unique |-> TRUE, fieldIds |-> <<"f1">>,
     createdAt |-> createdAt]

DBTable(createdAt, fields, indexes) ==
    [id |-> "t1", name |-> "users", schema |-> Some("public"),
     x |-> 10, y |-> 20, color |-> "blue", isView |-> FALSE,
     createdAt |-> createdAt, fields |-> fields, indexes |-> indexes,
     comments |-> Absent]

DBRelationship(createdAt) ==
    [id |-> "r1", name |-> "fk", sourceTableId |-> "t1", targetTableId |-> "t1",
     sourceFieldId |-> "f1", targetFieldId |-> "f1",
     sourceCardinality |-> "one", targetCardinality |-> "many",
     createdAt |-> createdAt]

DBDependency(createdAt) ==
    [id |-> "d1", tableId |-> "t1", dependentTableId |-> "t1", createdAt |-> createdAt]

Area == [id |-> "a1", name |-> "area", x |-> 0, y |-> 0, width |-> 100, height |-> 50,
         color |-> "grey"]

Note == [id |-> "n1", content |-> "todo", x |-> 0, y |-> 0, width |-> 100, height |-> 50,
         color |-> "yellow"]

DBCustomType == [id |-> "c1", name |-> "mood", schema |-> Absent, kind |-> "enum",
                 fields |-> Absent]

\* a collection that is present: empty, or with each of the entities
present(entities) == {Some(<<>>)} \cup {Some(<<e>>) : e \in entities}

DBTables ==
    {DBTable(c, fields, indexes) :
        c \in CreatedAts,
        fields \in {<<>>} \cup {<<DBField(StructuredType, fc)>> : fc \in CreatedAts},
        indexes \in present({DBIndex(ic) : ic \in {Absent, Some(5)}})}

\* diagrams with every optional collection present
FullDiagrams ==
    {Diagram("A", "v1") @@
        [tables |-> tables, relationships |-> relationships,
         dependencies |-> dependencies, areas |-> areas,
         customTypes |-> customTypes, notes |-> notes] :
        tables \in present(DBTables),
        relationships \in present({DBRelationship(c) : c \in CreatedAts}),
        dependencies \in present({DBDependency(c) : c \in {Absent, Some(5)}}),
        areas \in present({Area}),
        customTypes \in present({DBCustomType}),
        notes \in present({Note})}

\* wire types of a field: a bare type name, or a structured type
WireTypes == {[str |-> text] : text \in TypeTexts} \cup {StructuredType}

\* a response body of pull whose one table has one field of the type
WireDiagram(type) ==
    serializeDiagram(Diagram("A", "v1")) @@
        [tables |-> Some(<<[serializeTable(DBTable(Absent, <<>>, Absent), "A") EXCEPT
                              !.fields = <<DBField(type, Absent)>>]>>),
         relationships |-> Absent, dependencies |-> Absent, areas |-> Absent,
         customTypes |-> Absent, notes |-> Absent]

\* push serializes its diagram (sync-service.ts:154)
serializeCall(d) ==
    /\ lastCall.op = "none"
    /\ lastCall' = [op |-> "serializeDiagram", owner |-> "client", arg |-> d,
                    returned |-> encode(d)]
    /\ UNCHANGED <<syncServiceInstance, enabled, isSyncingRef, lastSyncedDiagramRef,
                   debounce, network, acknowledged>>

\* pull deserializes a body (sync-service.ts:189)
deserializeCall(data, source, now) ==
    /\ lastCall' = [op |-> "deserializeDiagram", owner |-> "client", arg |-> data,
                    source |-> source, now |-> now, returned |-> decode(data, now)]
    /\ UNCHANGED <<syncServiceInstance, enabled, isSyncingRef, lastSyncedDiagramRef,
                   debounce, network, acknowledged>>

\* what the remote side stored from a push comes back in a pull
roundTrip(now) ==
    /\ lastCall.op = "serializeDiagram"
    /\ deserializeCall(lastCall.returned, Some(lastCall.arg), now)

\* a body of the remote side's own making is pulled
pulledBody(type, now) ==
    /\ lastCall.op = "none"
    /\ deserializeCall(WireDiagram(type), Absent, now)

----------------------------------------------------------------------------
(* Spec: the coordinator and the client.  DebounceSpec: the coordinator's  *)
(* pushes, immediate and debounced.                                        *)

SyncInit ==
    /\ syncServiceInstance = <<>>
    /\ enabled \in BOOLEAN
    /\ isSyncingRef = FALSE
    /\ lastSyncedDiagramRef = NullRef
    /\ debounce = debounceIdle
    /\ network = <<>>
    /\ lastCall = NoCall
    /\ acknowledged = <<>>

\* the reconciler before the page is mounted, over a catalog without diagrams
LoaderIdle ==
    /\ diagramId = Undefined
    /\ config = <<>>
    /\ currentDiagramId = ""
    /\ currentDiagramLoadingRef = Undefined
    /\ initialDiagram = <<>>
    /\ loaderShown = FALSE
    /\ catalog = EmptyCatalog
    /\ evaluations = <<>>
    /\ lastEvaluation = NoEvaluation

\* a server that holds no diagram
EmptyStore == [id \in DiagramIds |-> <<>>]

StoreIdle == remoteStore = EmptyStore

Init == SyncInit /\ LoaderIdle /\ StoreIdle

Next ==
    \/ \E c \in SyncConfigs : initSyncService(c) /\ UNCHANGED <<loaderVars, storeVars>>
    \/ \E d \in Diagrams : pushDiagramImmediate(d) /\ UNCHANGED <<loaderVars, storeVars>>
    \/ PushResolve /\ UNCHANGED <<loaderVars, storeVars>>
    \/ \E id \in DiagramIds : pullDiagram(id) /\ UNCHANGED <<loaderVars, storeVars>>
    \/ PullResolve /\ UNCHANGED <<loaderVars, storeVars>>
    \/ listDiagrams /\ UNCHANGED <<loaderVars, storeVars>>
    \/ ListResolve /\ UNCHANGED <<loaderVars, storeVars>>
    \/ ClientPush /\ UNCHANGED <<loaderVars, storeVars>>
    \/ ClientPull /\ UNCHANGED <<loaderVars, storeVars>>
    \/ ClientList /\ UNCHANGED <<loaderVars, storeVars>>
    \/ ClientResolve /\ UNCHANGED <<loaderVars, storeVars>>
    \/ healthCheck /\ UNCHANGED <<loaderVars, storeVars>>
    \/ checkHealth /\ UNCHANGED <<loaderVars, storeVars>>
    \/ HealthResolve /\ UNCHANGED <<loaderVars, storeVars>>

Spec == Init /\ [][Next]_vars

DebounceNext ==
    \/ \E c \in SyncConfigs : initSyncService(c) /\ UNCHANGED <<loaderVars, storeVars>>
    \/ \E d \in Diagrams : pushDiagramImmediate(d) /\ UNCHANGED <<loaderVars, storeVars>>
    \/ \E d \in Diagrams : debouncedPush(d) /\ UNCHANGED <<loaderVars, storeVars>>
    \/ DebounceTick /\ UNCHANGED <<loaderVars, storeVars>>
    \/ DebounceFire /\ UNCHANGED <<loaderVars, storeVars>>
    \/ PushResolve /\ UNCHANGED <<loaderVars, storeVars>>

DebounceSpec == Init /\ [][DebounceNext]_vars

\* the page is opened at any route over any local catalog, with the client as
\* App built it from SYNC_API_URL
LoaderInit ==
    /\ syncServiceInstance \in
          {<<[apiUrl |-> url, enabled |-> url # ""]>> : url \in {"", "http://api"}}
    /\ enabled = TRUE
    /\ isSyncingRef = FALSE
    /\ lastSyncedDiagramRef = NullRef
    /\ debounce = debounceIdle
    /\ network = <<>>
    /\ lastCall = NoCall
    /\ acknowledged = <<>>
    /\ diagramId \in DiagramIds \cup {Undefined}
    /\ config = <<>>
    /\ currentDiagramId = ""
    /\ currentDiagramLoadingRef = Undefined
    /\ initialDiagram = <<>>
    /\ loaderShown = FALSE
    /\ catalog \in {[id \in DiagramIds |-> IF id \in S THEN <<LocalEntry(id)>> ELSE <<>>] :
                     S \in SUBSET DiagramIds}
    /\ evaluations = <<>>
    /\ lastEvaluation = NoEvaluation
    /\ StoreIdle

LoaderNext ==
    \/ \E c \in LoaderConfigs : configLoaded(c) /\ UNCHANGED <<syncVars, storeVars>>
    \/ \E id \in DiagramIds \cup {Undefined} : navigated(id) /\ UNCHANGED <<syncVars, storeVars>>
    \/ loadDefaultDiagram /\ UNCHANGED <<syncVars, storeVars>>
    \/ \E k \in DOMAIN evaluations, o \in StorageOutcomes :
          loadExplicitReturns(k, o) /\ UNCHANGED <<syncVars, storeVars>>
    \/ \E k \in DOMAIN evaluations, o \in StorageOutcomes :
          loadDefaultReturns(k, o) /\ UNCHANGED <<syncVars, storeVars>>
    \/ \E k \in DOMAIN evaluations, remote \in remoteLists :
          listRemoteReturns(k, remote) /\ UNCHANGED <<syncVars, storeVars>>
    \/ \E k \in DOMAIN evaluations, o \in StorageOutcomes :
          listLocalReturns(k, o) /\ UNCHANGED <<syncVars, storeVars>>
    \/ \E k \in DOMAIN evaluations, o \in StorageOutcomes :
          addReturns(k, o) /\ UNCHANGED <<syncVars, storeVars>>
    \/ \E k \in DOMAIN evaluations, o \in StorageOutcomes :
          listFinalReturns(k, o) /\ UNCHANGED <<syncVars, storeVars>>

LoaderSpec == LoaderInit /\ [][LoaderNext]_vars

\* the awaits of an evaluation without an explicit identifier
defaultLoadSettles ==
    \E k \in DOMAIN evaluations, o \in StorageOutcomes :
        loadDefaultReturns(k, o) /\ UNCHANGED <<syncVars, storeVars>>

remoteListSettles ==
    \E k \in DOMAIN evaluations, remote \in remoteLists :
        listRemoteReturns(k, remote) /\ UNCHANGED <<syncVars, storeVars>>

localListSettles ==
    \E k \in DOMAIN evaluations, o \in StorageOutcomes :
        listLocalReturns(k, o) /\ UNCHANGED <<syncVars, storeVars>>

addSettles ==
    \E k \in DOMAIN evaluations, o \in StorageOutcomes :
        addReturns(k, o) /\ UNCHANGED <<syncVars, storeVars>>

finalListSettles ==
    \E k \in DOMAIN evaluations, o \in StorageOutcomes :
        listFinalReturns(k, o) /\ UNCHANGED <<syncVars, storeVars>>

\* the reconciler when every promise it awaits settles, by resolving or by
\* rejecting
LoaderFairSpec ==
    /\ LoaderInit /\ [][LoaderNext]_vars
    /\ WF_vars(defaultLoadSettles)
    /\ WF_vars(remoteListSettles)
    /\ WF_vars(localListSettles)
    /\ WF_vars(addSettles)
    /\ WF_vars(finalListSettles)

\* the codec alone: diagrams are serialized and the result deserialized, and
\* bodies are deserialized
CodecNext ==
    \/ \E d \in FullDiagrams : serializeCall(d) /\ UNCHANGED <<loaderVars, storeVars>>
    \/ \E now \in DateNows : roundTrip(now) /\ UNCHANGED <<loaderVars, storeVars>>
    \/ \E type \in WireTypes, now \in DateNows : pulledBody(type, now) /\ UNCHANGED <<loaderVars, storeVars>>

CodecSpec == Init /\ [][CodecNext]_vars

\* the server takes the request of the suspended call at position i: a push
\* replaces the stored diagram and is answered with success, a pull is
\* answered with the stored diagram, or 404 when there is none
answerOf(call) ==
    IF call.op = "push"
    THEN Response("http", 200, TRUE, "", [success |-> TRUE, diagram_id |-> call.arg.id])
    ELSE IF remoteStore[call.arg] = <<>>
    THEN Response("http", 404, TRUE, "not found", NoData)
    ELSE Response("http", 200, TRUE, "", remoteStore[call.arg][1])

serverHandles(i) ==
    LET call == network[i] IN
    /\ call.owner = "hook" /\ call.op \in {"push", "pull"}
    /\ call.response = <<>>
    /\ network' = [network EXCEPT ![i].response = <<answerOf(call)>>]
    /\ remoteStore' = IF call.op = "push"
                      THEN [remoteStore EXCEPT ![call.arg.id] = <<serializeDiagram(call.arg)>>]
                      ELSE remoteStore
    /\ lastCall' = NoCall
    /\ UNCHANGED <<syncServiceInstance, enabled, isSyncingRef, lastSyncedDiagramRef,
                   debounce, acknowledged>>

\* the answer to the push at position i reaches the hook
pushAnswered(i) ==
    /\ network[i].response # <<>>
    /\ pushDiagramSettled(i, network[i].response[1])

\* the answer to the pull at position i reaches the hook
pullAnswered(i) ==
    /\ network[i].response # <<>>
    /\ pullDiagramSettled(i, network[i].response[1])

\* the hook over a server that only the hook writes to, and a network that
\* delivers every answer, each after its own delay
StoreNext ==
    \/ \E c \in SyncConfigs : initSyncService(c) /\ UNCHANGED <<loaderVars, storeVars>>
    \/ \E d \in Diagrams : pushDiagramImmediate(d) /\ UNCHANGED <<loaderVars, storeVars>>
    \/ \E id \in DiagramIds : pullDiagram(id) /\ UNCHANGED <<loaderVars, storeVars>>
    \/ \E i \in DOMAIN network : serverHandles(i) /\ UNCHANGED loaderVars
    \/ \E i \in pushesInFlight : pushAnswered(i) /\ UNCHANGED <<loaderVars, storeVars>>
    \/ \E i \in inFlight("hook", "pull") :
          pullAnswered(i) /\ UNCHANGED <<loaderVars, storeVars>>

StoreSpec == Init /\ [][StoreNext]_vars

----------------------------------------------------------------------------
(* The coordinator's claims *)

\* the hook's pushDiagram calls in sight: those suspended and the last completed
hookPushes ==
    {network[i] : i \in pushesInFlight} \cup
    (IF lastCall.op = "push" /\ lastCall.owner = "hook" THEN {lastCall} ELSE {})

\* C1: single-flight push.  At most one push of the hook is outstanding; a
\* pushDiagram call (direct or fired by the debounce timer) that arrives while
\* an earlier push is unresolved returns at once with no fetch and no
\* callback, and no outstanding push was ever issued for such a call.
C1_SingleFlight ==
    /\ Cardinality(pushesInFlight) <= 1
    /\ \A call \in hookPushes :
          call.during => /\ call.requests = 0
                         /\ call.state = "returned"
                         /\ call.onSyncSuccess = <<>>
                         /\ call.onSyncError = <<>>

\* a debounced call was dropped while a direct push is still unresolved
C1_Witness ==
    /\ lastCall.op = "push" /\ lastCall.owner = "hook"
    /\ lastCall.during /\ lastCall.src = "debounce"
    /\ pushesInFlight # {}

\* C2: idempotence of change detection.  A pushDiagram call that directly
\* follows a completed, successful push of the same diagram issues no fetch
\* and calls neither callback, so the two calls make one network push.
C2_Idempotent ==
    \A call \in hookPushes :
        /\ call.requests <= 1
        /\ call.repeat => /\ call.requests = 0
                          /\ call.state = "returned"
                          /\ call.onSyncSuccess = <<>>
                          /\ call.onSyncError = <<>>

\* the second of two successive pushes of one diagram has returned
C2_Witness ==
    /\ lastCall.op = "push" /\ lastCall.owner = "hook"
    /\ lastCall.repeat /\ lastCall.serviceEnabled /\ ~lastCall.during

\* the invocations of pushDiagram made by the debounce timer for a burst whose
\* calls each came within the quiet window of the one before
debouncedCalls == {call \in hookPushes : call.src = "debounce" /\ call.inWindow}

\* C3, as stated, for an enabled coordinator: every such burst results in
\* exactly one network push, made after the window has elapsed since the last
\* call, carrying the last value.
C3_AsStated ==
    \A call \in debouncedCalls :
        call.serviceEnabled =>
            /\ call.n >= 1
            /\ call.waited >= debounceMs
            /\ <<call.arg>> = call.latest
            /\ call.requests = 1

\* C3, amended: every such burst results in exactly one invocation of
\* pushDiagram, made after the window has elapsed since the last call and
\* carrying the last value; the invocation issues one network push when the
\* coordinator is enabled, no push is in flight and the value differs from
\* what was last synced, and none otherwise.
C3_Coalescing ==
    \A call \in debouncedCalls :
        /\ call.n >= 1
        /\ call.waited >= debounceMs
        /\ <<call.arg>> = call.latest
        /\ call.requests =
              IF call.serviceEnabled /\ ~call.during /\ call.changed THEN 1 ELSE 0

\* a burst of three calls has fired and its push was issued
C3_Witness ==
    \E i \in pushesInFlight :
        /\ network[i].src = "debounce" /\ network[i].inWindow
        /\ network[i].n = MaxBurst
        /\ network[i].requests = 1

\* C4: the in-flight flag is cleared in all cases.  The flag is set exactly
\* while a push of the hook is outstanding, every completed call that set it
\* (success, failure, skip) leaves it false, and so a call with changed
\* content that finds the hook enabled and no push outstanding issues a push.
C4_FlagCleared ==
    /\ isSyncingRef <=> (pushesInFlight # {})
    /\ \A call \in hookPushes :
          /\ (call.state # "awaiting" /\ call.serviceEnabled /\ ~call.during)
                => ~call.flagAfter
          /\ (call.serviceEnabled /\ ~call.during /\ call.changed)
                => call.requests = 1

\* a push that had set the flag failed, and the flag is clear again
C4_Witness ==
    /\ lastCall.op = "push" /\ lastCall.owner = "hook"
    /\ lastCall.state = "settled" /\ lastCall.client.threw
    /\ lastCall.flagChanged /\ ~lastCall.flagAfter
    /\ ~isSyncingRef /\ pushesInFlight = {}

\* C5: disabled short-circuit.  No call that finds its side disabled is ever
\* suspended at a fetch; such a call of the client throws the Disabled error,
\* and such a call of the hook returns nothing / null / [] with no callback
\* and no change to the flag or the baseline.
C5_Disabled ==
    /\ \A i \in DOMAIN network : network[i].serviceEnabled
    /\ (lastCall.op \in {"push", "pull", "list"} /\ ~lastCall.serviceEnabled) =>
          /\ lastCall.requests = 0
          /\ lastCall.state = "returned"
          /\ lastCall.owner = "client" =>
                /\ lastCall.client.threw
                /\ lastCall.client.error = DisabledError
          /\ lastCall.owner = "hook" =>
                /\ ~lastCall.client.threw
                /\ lastCall.returned = <<>>
                /\ lastCall.onSyncSuccess = <<>>
                /\ lastCall.onSyncError = <<>>
                /\ ~lastCall.raised
                /\ ~lastCall.flagChanged
                /\ ~lastCall.baselineChanged

\* the hook's option is off while the client is enabled, and a hook call returned
C5_Witness ==
    /\ isEnabled(syncServiceInstance) /\ ~enabled
    /\ lastCall.owner = "hook" /\ lastCall.op = "pull"

\* C6: pull-not-found.  A pull answered with status 404 is null at the client
\* and at the hook, with no error callback and the baseline unchanged; any
\* other non-success status makes the client throw.
C6_PullNotFound ==
    (lastCall.op = "pull" /\ lastCall.state = "settled") =>
        /\ lastCall.status = 404 =>
              /\ ~lastCall.client.threw
              /\ lastCall.client.value = <<>>
              /\ lastCall.owner = "hook" =>
                    /\ lastCall.returned = <<>>
                    /\ lastCall.onSyncError = <<>>
                    /\ ~lastCall.baselineChanged
        /\ (lastCall.status >= 300 /\ lastCall.status # 404) =>
              lastCall.client.threw

\* a pull of the hook was answered 404 while a baseline was set
C6_Witness ==
    /\ lastCall.op = "pull" /\ lastCall.owner = "hook"
    /\ lastCall.state = "settled" /\ lastCall.status = 404
    /\ lastSyncedDiagramRef # NullRef

\* C7: the hook swallows the client's failures.  Whenever the client's push,
\* pull or listDiagrams throws, the hook's function does not raise, passes
\* the failure to onSyncError once, and returns its fallback.
C7_Swallowed ==
    (lastCall.owner = "hook" /\ lastCall.state = "settled" /\ lastCall.client.threw) =>
        /\ ~lastCall.raised
        /\ lastCall.onSyncError = <<lastCall.client.error>>
        /\ lastCall.onSyncSuccess = <<>>
        /\ lastCall.returned = <<>>

\* a listDiagrams of the hook failed on a non-success status
C7_Witness ==
    /\ lastCall.owner = "hook" /\ lastCall.op = "list"
    /\ lastCall.state = "settled" /\ lastCall.client.threw
    /\ lastCall.status = 500

\* C18: pull sets the baseline.  A pull of the hook that returned diagram D
\* left the JSON text of D as the baseline, and a pushDiagram(D) that arrives
\* while D is the diagram the remote side last confirmed, by that pull,
\* issues no fetch and calls neither callback.
C18_PullBaseline ==
    /\ (lastCall.op = "pull" /\ lastCall.owner = "hook" /\ lastCall.returned # <<>>) =>
          lastSyncedDiagramRef = JSONstringify(lastCall.returned[1])
    /\ \A call \in hookPushes :
          call.pulled => /\ call.requests = 0
                         /\ call.state = "returned"
                         /\ call.onSyncSuccess = <<>>
                         /\ call.onSyncError = <<>>

\* the hook is enabled, no push is outstanding, and a push of the pulled
\* diagram has returned
C18_Witness ==
    /\ lastCall.op = "push" /\ lastCall.owner = "hook"
    /\ lastCall.pulled /\ lastCall.serviceEnabled /\ ~lastCall.during

\* the call that completed in this step is a push of the hook whose response
\* carried success, or a pull of the hook that returned a diagram
syncSucceeded(call) ==
    /\ call.owner = "hook" /\ call.state = "settled"
    /\ \/ call.op = "push" /\ pushSucceeded(call.client)
       \/ call.op = "pull" /\ ~call.client.threw /\ call.client.value # <<>>

\* C19: the baseline changes only on a successful push or a successful pull.
\* Every step that changes lastSyncedDiagramRef completes such a call; a
\* failed push, a skipped or dropped pushDiagram, a call that finds the hook
\* disabled, a pull that returns null or fails, listDiagrams and healthCheck
\* leave it as it was.  So the pushDiagram(D) that follows a failed push of D,
\* no push or pull having succeeded since that push was issued, issues a
\* fetch when it finds the hook enabled and no push outstanding.
C19_BaselineFrame ==
    /\ [][lastSyncedDiagramRef' # lastSyncedDiagramRef => syncSucceeded(lastCall')]_vars
    /\ [](lastCall.op # "none" /\ ~syncSucceeded(lastCall) => ~lastCall.baselineChanged)
    /\ [](\A call \in hookPushes :
            (call.retry /\ call.serviceEnabled /\ ~call.during) => call.requests = 1)

\* a baseline is set, a push of another diagram failed, and the push of that
\* diagram that followed was issued
C19_Witness ==
    /\ lastSyncedDiagramRef # NullRef
    /\ \E i \in pushesInFlight : network[i].retry /\ network[i].requests = 1

\* C20, as stated: every pushDiagram call whose fetch was issued and has
\* settled called exactly one callback, once: onSyncSuccess with the diagram's
\* id when the response carried success, onSyncError otherwise (a response
\* with a success status whose body has success = false included).
C20_OneCallback ==
    (lastCall.op = "push" /\ lastCall.owner = "hook" /\ lastCall.state = "settled") =>
        /\ Len(lastCall.onSyncSuccess) + Len(lastCall.onSyncError) = 1
        /\ pushSucceeded(lastCall.client) => lastCall.onSyncSuccess = <<lastCall.arg.id>>
        /\ ~pushSucceeded(lastCall.client) => Len(lastCall.onSyncError) = 1

\* the id of the diagram whose JSON text the baseline is
baselineId == lastSyncedDiagramRef[1][2]

\* C23, as stated: with the hook as the only writer of the remote store,
\* whenever no push and no pull is outstanding, a baseline that is set is the
\* JSON text of the diagram that the remote store holds under the baseline's
\* id, however pushes and pulls interleave.
C23_BaselineIsRemote ==
    (network = <<>> /\ lastSyncedDiagramRef # NullRef) =>
        /\ remoteStore[baselineId] # <<>>
        /\ lastSyncedDiagramRef =
              JSONstringify(deserializeDiagram(remoteStore[baselineId][1]))

----------------------------------------------------------------------------
(* The reconciler's claims *)

\* the calls of loadDefaultDiagram in sight: those suspended, and the one
\* that ended in the last step
evaluationsInSight ==
    {evaluations[k] : k \in DOMAIN evaluations} \cup
    (IF lastEvaluation.pc # "none" THEN {lastEvaluation} ELSE {})

\* the catalog projection of a remote row: the six members, no body
catalogProjection(row) ==
    [id |-> row.id, name |-> row.name, databaseType |-> row.databaseType,
     databaseEdition |-> row.databaseEdition,
     createdAt |-> row.createdAt, updatedAt |-> row.updatedAt, tables |-> Undefined]

\* the catalog after the reconciliation of e is the merge of the catalog
\* before it and the remote list
MergeHolds(e) ==
    /\ idsOf(e.catalogAfter) = idsOf(e.localBefore) \cup rowIds(e.remote)
    /\ \A id \in idsOf(e.localBefore) : e.catalogAfter[id] = e.localBefore[id]
    /\ \A id \in idsOf(e.catalogAfter) \ idsOf(e.localBefore) :
          \E j \in DOMAIN e.remote :
              e.catalogAfter[id] = <<catalogProjection(e.remote[j])>>

prompts(e) ==
    SelectSeq(e.trace,
              LAMBDA ev : ev[1] \in {"openOpenDiagramDialog", "openCreateDiagramDialog"})

\* C9: startup prompt choice.  An evaluation without an explicit identifier
\* opens no prompt before its final local list returns (none at all when it
\* navigates to the default diagram), and then exactly one:
\* the non-dismissible open-existing prompt if the local catalog holds a
\* diagram at that point, the create-new prompt otherwise.
C9_PromptChoice ==
    /\ \A k \in DOMAIN evaluations :
          evaluations[k].key = Undefined => prompts(evaluations[k]) = <<>>
    /\ (lastEvaluation.key = Undefined /\ ~lastEvaluation.reconciled) =>
          prompts(lastEvaluation) = <<>>
    /\ (lastEvaluation.key = Undefined /\ lastEvaluation.pc = "done"
            /\ lastEvaluation.reconciled) =>
          prompts(lastEvaluation) =
              << IF idsOf(catalog) # {}
                 THEN Event("openOpenDiagramDialog", "canClose: false")
                 ELSE Event("openCreateDiagramDialog", "") >>

\* remote list [], local list []: the create-new prompt was opened
C9_Witness ==
    /\ lastEvaluation.key = Undefined /\ lastEvaluation.pc = "done"
    /\ lastEvaluation.reconciled /\ lastEvaluation.remote = <<>>
    /\ idsOf(catalog) = {}
    /\ prompts(lastEvaluation) = <<Event("openCreateDiagramDialog", "")>>

\* the events of the explicit-identifier path up to the load
ExplicitStart(id) ==
    << Event("setInitialDiagram", Undefined), Event("showLoader", ""),
       Event("resetRedoStack", ""), Event("resetUndoStack", ""),
       Event("loadDiagram", id) >>

\* C10: the explicit-identifier path.  An evaluation with an explicit
\* identifier clears the staged diagram, shows the loader, resets the redo and
\* undo history and loads the identifier, in this order; when the load
\* returns it stages the diagram found and opens no prompt, or opens the
\* non-dismissible open-existing prompt and stages nothing, and in both
\* cases hides the loader last; it never lists or merges.
C10_ExplicitPath ==
    /\ \A e \in evaluationsInSight :
          e.key # Undefined =>
              /\ Len(e.trace) >= Len(ExplicitStart(e.key))
              /\ SubSeq(e.trace, 1, Len(ExplicitStart(e.key))) = ExplicitStart(e.key)
              /\ ~e.reconciled
              /\ e.pc \in {"loadExplicit", "done", "rejected"}
    /\ (lastEvaluation.key # Undefined /\ lastEvaluation.pc = "done") =>
          /\ ~loaderShown
          /\ IF catalog[lastEvaluation.key] # <<>>
             THEN /\ lastEvaluation.trace =
                        ExplicitStart(lastEvaluation.key) \o
                        << Event("setInitialDiagram", lastEvaluation.key),
                           Event("hideLoader", "") >>
                  /\ initialDiagram = catalog[lastEvaluation.key]
                  /\ initialDiagram[1].id = lastEvaluation.key
             ELSE lastEvaluation.trace =
                        ExplicitStart(lastEvaluation.key) \o
                        << Event("openOpenDiagramDialog", "canClose: false"),
                           Event("hideLoader", "") >>

\* an explicit identifier that is not in the local catalog: the prompt is
\* open and the loader hidden
C10_Witness ==
    /\ lastEvaluation.key # Undefined /\ lastEvaluation.pc = "done"
    /\ catalog[lastEvaluation.key] = <<>>
    /\ prompts(lastEvaluation) = <<Event("openOpenDiagramDialog", "canClose: false")>>
    /\ ~loaderShown

\* C11, as stated: the guard on currentDiagramLoadingRef keeps the suspended
\* calls of loadDefaultDiagram apart: no two of them are for the same
\* identifier, whatever the sequence of route changes (A, B, A included).
C11_NoOverlap ==
    \A j, k \in DOMAIN evaluations :
        j # k => evaluations[j].key # evaluations[k].key

\* C12: healthCheck never raises.  Of the client and of the hook alike, a
\* health check returns false without a fetch when the client is disabled,
\* false when the fetch rejects, false on a non-success status, and true
\* exactly on a success status; it never throws.
C12_HealthCheck ==
    /\ \A i \in DOMAIN network :
          network[i].op = "health" => isEnabled(syncServiceInstance)
    /\ lastCall.op = "health" =>
          LET answer == IF lastCall.owner = "hook"
                        THEN lastCall.returned ELSE lastCall.client.value
          IN  /\ ~lastCall.client.threw
              /\ ~lastCall.raised
              /\ lastCall.state = "returned" =>
                    /\ ~isEnabled(syncServiceInstance)
                    /\ lastCall.requests = 0
                    /\ answer = <<FALSE>>
              /\ lastCall.state = "settled" =>
                    /\ lastCall.requests = 1
                    /\ answer = <<lastCall.status >= 200 /\ lastCall.status <= 299>>

\* the fetch of a health check of the client was rejected
C12_Witness ==
    /\ lastCall.op = "health" /\ lastCall.owner = "client"
    /\ lastCall.state = "settled" /\ lastCall.status = 0
    /\ lastCall.client.value = <<FALSE>>

\* the calls of addDiagram for id that an evaluation made
addsOf(e, id) == SelectSeq(e.trace, LAMBDA ev : ev = Event("addDiagram", id))

\* C15, as stated: merge without duplication.  During one reconciliation
\* addDiagram is called at most once for an id, and never for an id that the
\* local catalog had, whatever the remote list (one that carries an id twice
\* included).
C15_AddOnce ==
    \A e \in evaluationsInSight :
        \A id \in DiagramIds :
            /\ Len(addsOf(e, id)) <= 1
            /\ Len(addsOf(e, id)) > 0 => id \notin idsOf(e.localBefore)

\* an evaluation is suspended in step 3 or at the list of step 4
inStepThree ==
    \E k \in DOMAIN evaluations :
        evaluations[k].pc \in {"listRemote", "listLocal", "add", "listFinal"}

\* the last event of an evaluation is the await of listDiagrams()
awaitedLocalList(e) ==
    Len(e.trace) > 0 /\ e.trace[Len(e.trace)] = Event("listDiagrams", "")

defaultPath ==
    {e \in evaluationsInSight :
        e.key = Undefined /\ e.defaultId # "" /\ Len(e.trace) >= 2}

\* C17: the default-identifier path.  With no explicit identifier and a
\* configured default identifier, an evaluation whose load of the default
\* returned a diagram navigates to the default's route and stops there: it
\* lists no remote diagrams and opens no prompt.  One whose load returned none
\* goes on with the remote list, opens no prompt before the reconciliation is
\* over, and comes to the prompt decision of the final local list, the awaited
\* operations settling.
C17_DefaultPath ==
    /\ [](\A e \in evaluationsInSight :
            (e.key = Undefined /\ e.defaultId # "") =>
                e.trace[1] = Event("loadDiagram", e.defaultId))
    /\ [](\A e \in defaultPath :
            e.loaded # <<>> =>
                /\ e = lastEvaluation /\ e.pc = "done"
                /\ e.trace = << Event("loadDiagram", e.defaultId),
                                Event("navigate", e.defaultId) >>
                /\ diagramId = e.defaultId)
    /\ [](\A e \in defaultPath :
            e.loaded = <<>> =>
                /\ e.trace[2] = Event("listRemoteDiagrams", "")
                /\ e.pc \in {"listRemote", "listLocal", "add", "listFinal",
                             "done", "rejected"}
                /\ prompts(e) # <<>> => (e.reconciled /\ e.pc = "done"))
    /\ (\E k \in DOMAIN evaluations :
            evaluations[k].defaultId # "" /\ evaluations[k].pc = "listRemote")
          ~> (/\ lastEvaluation.defaultId # "" /\ lastEvaluation.reconciled
              /\ lastEvaluation.pc \in {"done", "rejected"})

\* the default diagram A is in the local catalog: the evaluation navigated to it
C17_Witness ==
    /\ lastEvaluation \in defaultPath
    /\ lastEvaluation.loaded # <<>>
    /\ lastEvaluation.trace[2] = Event("navigate", "A")
    /\ diagramId = "A"

\* the positions of an event in the trace of an evaluation
positionsOf(e, name) == {j \in DOMAIN e.trace : e.trace[j][1] = name}

\* C21, as stated: every showLoader of an evaluation with an explicit
\* identifier is followed by a hideLoader, whether loadDiagram returned a
\* diagram, returned none, or raised: an evaluation that has ended has no
\* showLoader without a later hideLoader.
C21_LoaderHidden ==
    (lastEvaluation.key # Undefined /\ lastEvaluation.pc \in {"done", "rejected"}) =>
        \A j \in positionsOf(lastEvaluation, "showLoader") :
            \E m \in positionsOf(lastEvaluation, "hideLoader") : m > j

\* every evaluation has finished and the effect has nothing to start for the
\* present route
allFinished ==
    /\ evaluations = <<>>
    /\ config # <<>>
    /\ currentDiagramId = diagramId \/ alreadyLoading

\* C22, as stated: when the last evaluation for an explicit identifier has
\* ended and all evaluations have finished, the staged diagram, if any, has
\* the id of the latest target identifier, also when the evaluations for two
\* identifiers overlapped: the late result of the evaluation for the earlier
\* identifier does not replace what was staged for the later one.
C22_LatestStaged ==
    (/\ allFinished
     /\ lastEvaluation.key # Undefined /\ lastEvaluation.pc \in {"done", "rejected"}
     /\ diagramId # Undefined /\ initialDiagram # <<>>) =>
        initialDiagram[1].id = diagramId

----------------------------------------------------------------------------
(* The codec's claims *)

\* entity b is entity a, but for a createdAt that a does not have
backfilled(a, b) ==
    /\ [b EXCEPT !.createdAt = Absent] = [a EXCEPT !.createdAt = Absent]
    /\ a.createdAt # Absent => b.createdAt = a.createdAt

\* the same of two optional collections, entity by entity
eachBackfilled(as, bs) ==
    IF as = Absent \/ bs = Absent
    THEN as = bs
    ELSE /\ Len(as[1]) = Len(bs[1])
         /\ \A k \in DOMAIN as[1] : backfilled(as[1][k], bs[1][k])

\* table b is table a, but for the createdAt that a, its fields and its
\* indexes do not have
tableReproduced(a, b) ==
    /\ backfilled([a EXCEPT !.fields = <<>>, !.indexes = Absent],
                  [b EXCEPT !.fields = <<>>, !.indexes = Absent])
    /\ eachBackfilled(Some(a.fields), Some(b.fields))
    /\ eachBackfilled(a.indexes, b.indexes)

\* diagram r is diagram d, but for the createdAt values that d does not have
reproduces(d, r) ==
    /\ DOMAIN r = DOMAIN d
    /\ \A m \in DOMAIN d \ {"tables", "relationships", "dependencies"} : r[m] = d[m]
    /\ eachBackfilled(d.relationships, r.relationships)
    /\ eachBackfilled(d.dependencies, r.dependencies)
    /\ IF d.tables = Absent \/ r.tables = Absent
       THEN d.tables = r.tables
       ELSE /\ Len(d.tables[1]) = Len(r.tables[1])
            /\ \A k \in DOMAIN d.tables[1] : tableReproduced(d.tables[1][k], r.tables[1][k])

\* C13, as stated: codec round trip.  For a diagram d with every optional
\* collection present, deserializeDiagram(serializeDiagram(d)) is d, except
\* for the createdAt values that d does not have, which are set at decode
\* time.
C13_RoundTrip ==
    (lastCall.op = "deserializeDiagram" /\ lastCall.source # Absent) =>
        reproduces(lastCall.source[1], lastCall.returned)

\* the id that the type name s is to decode to: s in lower case, with every
\* maximal run of whitespace as one underscore
normalizedId(s) ==
    LET kept == SelectSeq([k \in DOMAIN s |-> k],
                          LAMBDA k : s[k] \notin WhiteSpace
                                     \/ k = 1 \/ s[k - 1] \notin WhiteSpace)
    IN  [j \in DOMAIN kept |->
            CASE s[kept[j]] \in WhiteSpace -> "_"
              [] s[kept[j]] = "A" -> "a"
              [] OTHER -> s[kept[j]]]

\* C14: field type normalization on decode.  A wire field whose type is the
\* bare string s decodes to {id: s in lower case with each run of whitespace
\* as one underscore, name: s}; a wire field whose type is a structured
\* {id, name} pair decodes with its type unchanged.
C14_FieldType ==
    (lastCall.op = "deserializeDiagram" /\ lastCall.source = Absent) =>
        LET wire == lastCall.arg.tables[1][1].fields[1].type
            type == lastCall.returned.tables[1][1].fields[1].type
        IN  IF isString(wire)
            THEN type = [id |-> normalizedId(wire.str), name |-> wire.str]
            ELSE type = wire

\* the type "A", blank, tab (a run of two whitespace characters) was decoded
C14_Witness ==
    /\ lastCall.op = "deserializeDiagram" /\ lastCall.source = Absent
    /\ lastCall.arg.tables[1][1].fields[1].type = [str |-> <<"A", " ", "\t">>]
    /\ lastCall.returned.tables[1][1].fields[1].type.id = <<"a", "_">>

====
